---- MODULE Spec2Model ----
(***************************************************************************)
(* Baler: the train / compress / decompress pipeline of                    *)
(* baler/modules/helper.py and the training loop of                        *)
(* baler/modules/training.py.                                              *)
(*                                                                         *)
(* The neural network is opaque: the loss of a batch is an input of the    *)
(* batch step, the model parameters are represented by the number of       *)
(* gradient steps taken on them, and a persisted model is the ordered list *)
(* of the lengths of its state-dict entries.  Numbers that are floats in   *)
(* the program are rationals [num, den] here; a non-finite float (nan,     *)
(* +inf, -inf) is the absorbing value NonFinite.                           *)
(***************************************************************************)
EXTENDS Integers, Sequences, FiniteSets, TLC

\* ------------------------------------------------------------------ bounds
MaxCols == 3        \* widest input dataset (columns)
MaxLoss == 2        \* largest finite loss a batch yields
MaxEpochs == 2      \* largest configured epoch count
MaxPatience == 2    \* largest configured patience
MaxMinDelta == 1    \* largest configured min_delta

\* ------------------------------------------------------------ input domains
Rows == 4           \* rows of every input dataset
DefaultLr == 1      \* config.lr, in units of the default 0.001
NonFinite == -1     \* a loss that is nan, +inf or -inf
Infinity == -2      \* best_loss before the first observation

LossValues == 0..MaxLoss
BatchLoss == LossValues \cup {NonFinite}

\* Column kinds a dataset file may hold: a varying column, a constant
\* (degenerate) column, a varying column with another minimum and range.
Column(lo, hi) == [r \in 1..Rows |-> IF r = 1 THEN lo ELSE hi]
ColumnKinds == << Column(0, 2), Column(3, 3), Column(1, 5) >>

\* The dataset files a data path may name: n columns, cycling through the
\* column kinds from kind k on.
Dataset(n, k) == [c \in 1..n |-> ColumnKinds[((k + c) % Len(ColumnKinds)) + 1]]
Datasets == { Dataset(n, k) : n \in 1..MaxCols, k \in 1..Len(ColumnKinds) }

\* compression_ratio values (floats exactly representable): 2.0, 1.5, 1.0
Ratios == { [num |-> 2, den |-> 1], [num |-> 3, den |-> 2], [num |-> 1, den |-> 1] }

\* model_name selects the (external) architecture; the two architectures
\* differ in the order in which their layers are registered.
ModelNames == { "encoder_first", "decoder_first" }

VARIABLES
    files,              \* the dataset files present on disk
    config,             \* the caller's configuration object (attribute dict)
    pc,                 \* position of the running invocation
    processed,          \* what helper.process returned
    latent_space_size,  \* config['latent_space_size'], set by the derive driver
    model,              \* the in-memory model object
    model_file,         \* the persisted model under model_path
    last,               \* outcome of the last compress / decompress call
    optimizer,          \* training.train: optimizer
    early_stopping,     \* training.train: early_stopping
    lr_scheduler,       \* training.train: lr_scheduler
    train_local,        \* training.train: locals read from config (l. 66-72)
    batch,              \* batches consumed of the current data loader
    running_loss,       \* fit / validate: running_loss
    train_loss,         \* training.train: train_loss list
    val_loss,           \* training.train: val_loss list
    loss_log,           \* loss_data.csv: number of times written, rows
    error               \* exception that ended the invocation

pipeVars == <<files, config, processed, latent_space_size, model_file, last>>
trainVars == <<optimizer, early_stopping, lr_scheduler, train_local, batch,
               running_loss, train_loss, val_loss, loss_log, error>>
vars == <<files, config, pc, processed, latent_space_size, model, model_file, last,
          optimizer, early_stopping, lr_scheduler, train_local, batch,
          running_loss, train_loss, val_loss, loss_log, error>>

\* --------------------------------------------------------------- helpers
Min(S) == CHOOSE x \in S : \A y \in S : x <= y
Max(S) == CHOOSE x \in S : \A y \in S : x >= y
Range(s) == { s[i] : i \in 1..Len(s) }
Last(s) == s[Len(s)]

\* obj.name = val on a Python object: adds the attribute or overwrites it.
SetAttr(obj, name, val) ==
    [f \in (DOMAIN obj) \cup {name} |-> IF f = name THEN val ELSE obj[f]]

\* float addition with an absorbing non-finite value
AddLoss(a, b) == IF a = NonFinite \/ b = NonFinite THEN NonFinite ELSE a + b

\* len(DataLoader(ds, batch_size=bs)) = ceil(len(ds) / bs)
LoaderLen(rows, bs) == (rows + bs - 1) \div bs

\* ------------------------------------------- data_processing (Normalizer)
\* data_processing.get_columns(df): the column names, here the positions.
GetColumns(df) == [c \in 1..Len(df) |-> c]

\* data_processing.find_minmax(df): per column (true_min, range).
FindMinMax(df) ==
    [c \in 1..Len(df) |->
        [true_min |-> Min(Range(df[c])),
         range |-> Max(Range(df[c])) - Min(Range(df[c]))]]

\* Normalizer.apply on one column: (value - true_min) / range as the
\* fraction <<numerator, denominator>>, 0 for a degenerate column.
Apply(col, p) ==
    [r \in 1..Len(col) |->
        IF p.range > 0 THEN <<col[r] - p.true_min, p.range>> ELSE <<0, 1>>]

\* data_processing.normalize(data, config) as numpy.apply_along_axis calls
\* it: its arguments are one column of the array and the config, so the
\* parameters it applies are the ones of the column it is given.
ColumnParams(col) ==
    [true_min |-> Min(Range(col)), range |-> Max(Range(col)) - Min(Range(col))]

\* helper.normalize(data, config): the normalized frame, with the parameters
\* that were applied to each column.
normalize(data, cfg) ==
    [df |-> [c \in 1..Len(data) |-> Apply(data[c], ColumnParams(data[c]))],
     params |-> [c \in 1..Len(data) |-> ColumnParams(data[c])]]

\* data_processing.split(df, test_size, random_state=1): row counts of the
\* train and the test set.
Split(rows, test_size) ==
    [test |-> (rows * test_size.num) \div test_size.den,
     train |-> rows - (rows * test_size.num) \div test_size.den]

\* --------------------------------------------------- latent width, models
\* CompressionEngine.latent_width, as the derive driver sizes the model.
latent_width(n_features, compression_ratio) ==
    (n_features * compression_ratio.den) \div compression_ratio.num

\* a rounding latent width, int(round(n / ratio)) with halves rounded up
LatentSpaceSizeRounded(number_of_columns, compression_ratio) ==
    (2 * number_of_columns * compression_ratio.den + compression_ratio.num)
        \div (2 * compression_ratio.num)

\* helper.compress: int(number_of_columns // config.compression_ratio)
LatentSpaceSize(number_of_columns, compression_ratio) ==
    (number_of_columns * compression_ratio.den) \div compression_ratio.num

NoModel == [exists |-> FALSE]
NoFile == [exists |-> FALSE]
NoResult == [op |-> "none"]
NotProcessed == [done |-> FALSE]
Unbound == [bound |-> FALSE]

\* model.state_dict(): the first-dimension length of each entry, in the
\* order the architecture registers its layers (weight, bias per layer).
StateDict(m, model_name) ==
    IF model_name = "encoder_first"
    THEN << m.z_dim, m.z_dim, m.n_features, m.n_features >>
    ELSE << m.n_features, m.n_features, m.z_dim, m.z_dim >>

\* ModelStore.load: the requested (n_features, z_dim) must be the shapes of
\* the stored weights.
LoadModel(file, n_features, z_dim) ==
    IF n_features = file.n_features /\ z_dim = file.z_dim
    THEN [ok |-> TRUE, n_features |-> n_features, z_dim |-> z_dim,
          error |-> "none"]
    ELSE [ok |-> FALSE, n_features |-> n_features, z_dim |-> z_dim,
          error |-> "ArchitectureMismatchError"]

\* ---------------------------------------------------------------- helper
\* The pipeline is single-threaded: a helper function is called when no call
\* of train is in progress (before it, or after it has ended).
NoCallRunning == pc \in {"idle", "raised"}

\* helper.process(data_path, config); a run calls it once.
Process ==
    /\ pc = "idle"
    /\ ~processed.done
    /\ \E df \in files :
        LET cols == GetColumns(df)
            normalization_features == FindMinMax(df)
            number_of_columns == Len(GetColumns(df))
            normed == normalize(df, config)
            parts == Split(Len(df[1]), config.test_size)
        IN  /\ config' = SetAttr(SetAttr(config, "cleared_col_names", cols),
                                 "cleared_col_names", cols)
            /\ processed' = [done |-> TRUE,
                             number_of_columns |-> number_of_columns,
                             normalization_features |-> normalization_features,
                             train_set |-> parts.train,
                             test_set |-> parts.test]
    /\ UNCHANGED <<files, pc, latent_space_size, model, model_file, last>>
    /\ UNCHANGED trainVars

\* The derive driver between process and train: resolves the latent width
\* and instantiates the model class that helper.model_init returns.
InitModel ==
    /\ pc = "idle"
    /\ processed.done
    /\ ~model.exists
    /\ latent_space_size' =
           latent_width(processed.number_of_columns, config.compression_ratio)
    /\ model' = [exists |-> TRUE,
                 n_features |-> processed.number_of_columns,
                 z_dim |-> latent_width(processed.number_of_columns,
                                        config.compression_ratio),
                 params |-> 0,
                 training |-> TRUE]
    /\ UNCHANGED <<files, config, pc, processed, model_file, last>>
    /\ UNCHANGED trainVars

\* helper.model_saver(model, model_path); a run saves its model once.
ModelSaver ==
    /\ NoCallRunning
    /\ model.exists
    /\ ~model_file.exists
    /\ model_file' = [exists |-> TRUE,
                      n_features |-> model.n_features,
                      z_dim |-> model.z_dim,
                      params |-> model.params,
                      modelDict |-> StateDict(model, config.model_name)]
    /\ UNCHANGED <<files, config, pc, processed, latent_space_size, model, last>>
    /\ UNCHANGED trainVars

\* helper.compress(model_path, input_path, config), model_path an existing file
Compress ==
    /\ NoCallRunning
    /\ model_file.exists
    /\ \E data \in files :
        LET number_of_columns == Len(GetColumns(data))
            z == LatentSpaceSize(number_of_columns, config.compression_ratio)
            normed == normalize(data, config)
            loaded == LoadModel(model_file, number_of_columns, z)
        IN  /\ config' = SetAttr(config, "cleared_col_names", GetColumns(data))
            /\ last' = [op |-> "compress",
                        number_of_columns |-> number_of_columns,
                        latent_space_size |-> z,
                        params |-> normed.params,
                        outcome |-> loaded.error,
                        decoded |-> FALSE,
                        width |-> IF loaded.ok THEN loaded.z_dim ELSE 0]
    /\ UNCHANGED <<files, pc, processed, latent_space_size, model, model_file>>
    /\ UNCHANGED trainVars

\* helper.decompress(model_path, input_path, config): input_path holds a
\* latent matrix whose rows are w wide.
Decompress ==
    /\ NoCallRunning
    /\ model_file.exists
    /\ \E w \in 0..MaxCols :
        LET z == w
            number_of_columns == Last(model_file.modelDict)
            loaded == LoadModel(model_file, number_of_columns, z)
        IN  last' = [op |-> "decompress",
                     number_of_columns |-> number_of_columns,
                     latent_space_size |-> z,
                     params |-> << >>,
                     outcome |-> loaded.error,
                     decoded |-> loaded.ok,
                     width |-> IF loaded.ok THEN loaded.n_features ELSE 0]
    /\ UNCHANGED <<files, config, pc, processed, latent_space_size, model, model_file>>
    /\ UNCHANGED trainVars

\* ------------------------------------------------------- utils (policies)
\* A loss of an epoch is the fraction sum / n of the running loss over the
\* number of batches.
EpochLoss(running, n) == [sum |-> running, n |-> n]

\* best_loss - val_loss > min_delta
Improves(best_loss, v, min_delta) ==
    /\ v.sum # NonFinite
    /\ \/ best_loss.sum = Infinity
       \/ /\ best_loss.sum # NonFinite
          /\ best_loss.sum * v.n - v.sum * best_loss.n
                 > min_delta * best_loss.n * v.n

\* utils.EarlyStopping(patience, min_delta)
EarlyStopping(patience, min_delta) ==
    [bound |-> TRUE, patience |-> patience, min_delta |-> min_delta,
     counter |-> 0, best_loss |-> EpochLoss(Infinity, 1), early_stop |-> FALSE]

\* early_stopping(val_loss): one observation of the StoppingPolicy
EarlyStoppingCall(es, v) ==
    IF es.early_stop THEN es
    ELSE IF Improves(es.best_loss, v, es.min_delta)
    THEN [es EXCEPT !.best_loss = v, !.counter = 0]
    ELSE [es EXCEPT !.counter = @ + 1,
                    !.early_stop = (es.counter + 1 >= es.patience)]

\* utils.LRScheduler(optimizer, patience)
LRScheduler(patience) ==
    [bound |-> TRUE, patience |-> patience, counter |-> 0,
     best_loss |-> EpochLoss(Infinity, 1)]

\* -------------------------------------------------------------- training
InFit == pc = "fit"
InValidate == pc = "validate"
Ended == pc = "raised"

\* training.train, lines 65-114: read the config, build the loaders, the
\* optimizer and the enabled policies, empty the histories, enter epoch 0.
TrainBegin ==
    /\ pc = "idle"
    /\ processed.done
    /\ model.exists
    /\ train_local' = [learning_rate |-> config.lr,
                       bs |-> config.batch_size,
                       epochs |-> config.epochs,
                       latent_space_size |-> latent_space_size,
                       train_dl |-> LoaderLen(processed.train_set, config.batch_size),
                       valid_dl |-> LoaderLen(processed.test_set, config.batch_size),
                       epoch |-> 0]
    /\ optimizer' = [lr |-> config.lr, steps |-> 0]
    /\ early_stopping' = IF config.early_stopping
                         THEN EarlyStopping(config.patience, config.min_delta)
                         ELSE Unbound
    /\ lr_scheduler' = IF config.lr_scheduler
                       THEN LRScheduler(config.patience)
                       ELSE Unbound
    /\ train_loss' = << >>
    /\ val_loss' = << >>
    /\ model' = [model EXCEPT !.training = TRUE]
    /\ running_loss' = 0
    /\ batch' = 0
    /\ pc' = "fit"
    /\ UNCHANGED <<loss_log, error>>
    /\ UNCHANGED pipeVars

\* training.fit, lines 18-33: one batch of the fit phase
FitBatch ==
    /\ pc = "fit"
    /\ batch < train_local.train_dl
    /\ \E loss \in BatchLoss :
        /\ model' = [model EXCEPT !.params = @ + 1]
        /\ optimizer' = [optimizer EXCEPT !.steps = @ + 1]
        /\ running_loss' = AddLoss(running_loss, loss)
    /\ batch' = batch + 1
    /\ UNCHANGED <<pc, early_stopping, lr_scheduler, train_local, train_loss,
                   val_loss, loss_log, error>>
    /\ UNCHANGED pipeVars

\* training.fit lines 35-38, training.train line 125, training.validate
\* lines 42-48: the fit phase returns its mean loss, the loop appends it and
\* enters the validate phase.
FitReturn ==
    /\ pc = "fit"
    /\ batch = train_local.train_dl
    /\ train_loss' = Append(train_loss, EpochLoss(running_loss, train_local.train_dl))
    /\ model' = [model EXCEPT !.training = FALSE]
    /\ running_loss' = 0
    /\ batch' = 0
    /\ pc' = "validate"
    /\ UNCHANGED <<optimizer, early_stopping, lr_scheduler, train_local,
                   val_loss, loss_log, error>>
    /\ UNCHANGED pipeVars

\* a validation batch that also steps the optimizer
ValidateBatchStepping ==
    /\ pc = "validate"
    /\ batch < train_local.valid_dl
    /\ \E loss \in BatchLoss :
        running_loss' = AddLoss(running_loss, loss)
    /\ model' = [model EXCEPT !.params = @ + 1]
    /\ optimizer' = [optimizer EXCEPT !.steps = @ + 1]
    /\ batch' = batch + 1
    /\ UNCHANGED <<pc, early_stopping, lr_scheduler, train_local,
                   train_loss, val_loss, loss_log, error>>
    /\ UNCHANGED pipeVars

\* training.validate, lines 49-57: one batch of the validate phase
ValidateBatch ==
    /\ pc = "validate"
    /\ batch < train_local.valid_dl
    /\ \E loss \in BatchLoss :
        running_loss' = AddLoss(running_loss, loss)
    /\ batch' = batch + 1
    /\ UNCHANGED <<pc, model, optimizer, early_stopping, lr_scheduler, train_local,
                   train_loss, val_loss, loss_log, error>>
    /\ UNCHANGED pipeVars

\* training.validate lines 59-62, training.train lines 132-133: the validate
\* phase returns its mean loss, the loop appends it, and line 133 reads
\* mse_loss_fit1, a name that nothing binds: NameError ends train.  Lines
\* 134-159 (the policies, the next epoch, the loss log, the return) are
\* never reached.
ValidateReturn ==
    /\ pc = "validate"
    /\ batch = train_local.valid_dl
    /\ val_loss' = Append(val_loss, EpochLoss(running_loss, train_local.valid_dl))
    /\ pc' = "raised"
    /\ error' = "NameError"
    /\ UNCHANGED <<model, optimizer, early_stopping, lr_scheduler, train_local,
                   batch, running_loss, train_loss, loss_log>>
    /\ UNCHANGED pipeVars

\* --------------------------------------------------------- specifications
\* The configuration object of create_default_config, its fields drawn from
\* the values they may be given.
Configs(ratios, names, epochs, stopping, scheduling, patiences, deltas, sizes) ==
    [compression_ratio : ratios,
     model_name : names,
     epochs : epochs,
     early_stopping : stopping,
     lr_scheduler : scheduling,
     patience : patiences,
     min_delta : deltas,
     lr : {DefaultLr},
     batch_size : sizes,
     test_size : {[num |-> 1, den |-> 2]}]

InitState ==
    /\ pc = "idle"
    /\ processed = NotProcessed
    /\ latent_space_size = 0
    /\ model = NoModel
    /\ model_file = NoFile
    /\ last = NoResult
    /\ optimizer = Unbound
    /\ early_stopping = Unbound
    /\ lr_scheduler = Unbound
    /\ train_local = Unbound
    /\ batch = 0
    /\ running_loss = 0
    /\ train_loss = << >>
    /\ val_loss = << >>
    /\ loss_log = [written |-> 0, rows |-> 0]
    /\ error = "none"

\* Every mode of the tool, on any dataset and compression ratio, with the
\* training options of the default configuration.
Init ==
    /\ files = Datasets
    /\ config \in Configs(Ratios, ModelNames, {MaxEpochs}, {TRUE}, {FALSE},
                          {MaxPatience}, {0}, {Rows})
    /\ InitState

Next ==
    \/ Process
    \/ InitModel
    \/ ModelSaver
    \/ Compress
    \/ Decompress
    \/ TrainBegin
    \/ FitBatch
    \/ FitReturn
    \/ ValidateBatch
    \/ ValidateReturn

Spec == Init /\ [][Next]_vars

\* The derive mode on one dataset, with every training option.
InitTrain ==
    /\ files = { Dataset(MaxCols, 1) }
    /\ config \in Configs({[num |-> 2, den |-> 1]}, {"encoder_first"},
                          1..MaxEpochs, BOOLEAN, BOOLEAN, 1..MaxPatience,
                          0..MaxMinDelta, {1, 2})
    /\ InitState

NextTrain ==
    \/ Process
    \/ InitModel
    \/ TrainBegin
    \/ FitBatch
    \/ FitReturn
    \/ ValidateBatch
    \/ ValidateReturn

SpecTrain == InitTrain /\ [][NextTrain]_vars

\* ------------------------------------------------------------ properties

\* C1: the latent width compress instantiates the model with is
\* floor(n_features / compression_ratio), and it is the latent_space_size the
\* training run of the same n_features and compression_ratio read.
C1_LatentWidthAgrees ==
    last.op = "compress" =>
        LET n == last.number_of_columns
            z == last.latent_space_size
            cr == config.compression_ratio
        IN  /\ z * cr.num <= n * cr.den
            /\ n * cr.den < (z + 1) * cr.num
            /\ (pc # "idle" /\ processed.number_of_columns = n)
                   => train_local.latent_space_size = z

\* A training run has read its latent width and compress has sized the model
\* for the same column count, where the quotient is not an integer.
C1_Witness ==
    /\ pc = "raised"
    /\ last.op = "compress"
    /\ last.number_of_columns = processed.number_of_columns
    /\ (last.number_of_columns * config.compression_ratio.den)
           % config.compression_ratio.num # 0
    /\ train_local.latent_space_size = last.latent_space_size

\* the state of the stopping policy after the first k validation losses
RECURSIVE Observed(_, _, _)
Observed(es, losses, k) ==
    IF k = 0 THEN es
    ELSE EarlyStoppingCall(Observed(es, losses, k - 1), losses[k])

\* C2: with early stopping enabled, when train has ended the number of
\* epochs it executed is the first epoch at which the stopping policy
\* signals stop, if there is one within config epochs, and config epochs
\* otherwise.
C2_StopsAtPatience ==
    (Ended /\ config.early_stopping) =>
        LET es == EarlyStopping(config.patience, config.min_delta)
            stops == { k \in 1..Len(val_loss) :
                           Observed(es, val_loss, k).early_stop }
        IN  Len(val_loss) = IF stops # {} /\ Min(stops) <= config.epochs
                            THEN Min(stops)
                            ELSE config.epochs

\* C3: a call of train whose batches all yield finite loss ends with one
\* (train_loss, val_loss) pair per executed epoch, the loss log written
\* exactly once with one row per executed epoch, and no exception.
C3_LogOncePerRun ==
    (/\ Ended
     /\ \A i \in 1..Len(train_loss) : train_loss[i].sum # NonFinite
     /\ \A i \in 1..Len(val_loss) : val_loss[i].sum # NonFinite)
        => /\ Len(train_loss) = Len(val_loss)
           /\ loss_log.written = 1
           /\ loss_log.rows = Len(val_loss)
           /\ error = "none"

\* C4: a non-finite batch loss in the fit phase aborts the run with a
\* DivergenceError at that batch, and no non-finite epoch loss is ever
\* appended to the loss history.
C4_DivergenceAborts ==
    /\ (InFit /\ running_loss = NonFinite) => error = "DivergenceError"
    /\ \A i \in 1..Len(train_loss) : train_loss[i].sum # NonFinite

\* C5: the normalization parameters compress applies are the ones computed
\* from the derive-time dataset.
C5_CompressUsesDeriveParams ==
    (last.op = "compress" /\ processed.done)
        => last.params = processed.normalization_features

\* C6: decompress of a latent matrix whose width differs from the stored
\* model's z_dim fails with a ShapeError before decode, and never asks for a
\* model of the latent matrix's width.
C6_ShapeErrorOnWidthMismatch ==
    (last.op = "decompress" /\ last.latent_space_size # model_file.z_dim)
        => /\ last.outcome = "ShapeError"
           /\ ~last.decoded

\* C7: the n_features decompress re-instantiates the model with is the
\* n_features the model was derived with, and a decoded output is that wide.
C7_DecompressRecoversFeatures ==
    last.op = "decompress" =>
        /\ last.number_of_columns = model_file.n_features
        /\ last.decoded => last.width = model_file.n_features

\* C8: no pipeline operation changes the caller's configuration object.
C8_ConfigUnchanged == [][config' = config]_vars

\* C9: the validate phase changes neither the model parameters nor the
\* optimizer state (learning rate, step count).
C9_ValidateLeavesParameters ==
    [][InValidate => (model'.params = model.params /\ optimizer' = optimizer)]_vars

\* Validation has run all its batches after a fit phase that took gradient
\* steps, and the parameters are those the fit phase left.
C9_Witness ==
    /\ Ended
    /\ Len(val_loss) = 1
    /\ train_local.valid_dl >= 1
    /\ model.params = train_local.train_dl
    /\ model.params > 0

====
